---- MODULE Spec2Model ----
(***************************************************************************)
(* Model of examples/pytorch/math_word_problem/mawps/src/runner.py: the    *)
(* Mawps runner (construction, prepare_ext_vocab, train_epoch, train,      *)
(* eval).  The external library objects (Vocab, DataLoader, Graph2Tree)    *)
(* are modelled only as far as the runner reads or writes them.            *)
(***************************************************************************)
EXTENDS Integers, Sequences, FiniteSets, TLC

VARIABLES
    opt,            \* the configuration handed to Mawps(opt=...)
    pc,             \* position of the driver (__main__, __init__, train, eval)
    err,            \* the exception that ended the run, "none" if none
    attrs,          \* names of the attributes set on the runner so far
    src_vocab,      \* self.src_vocab, <<>> while unset
    tgt_vocab,      \* self.tgt_vocab, <<>> while unset
    model_mode,     \* "none" | "train" | "eval": mode of self.model
    epoch,          \* loop variable of train()
    step,           \* number of batches consumed in the running loader loop
    best_acc,       \* local best_acc of train()
    ret,            \* value returned by train(), <<>> until it returns
    batch_graph,    \* the batch graph of the current loop iteration, <<>> if none
    oov_dict,       \* local oov_dict of train_epoch / eval, <<>> when None
    model_oov,      \* oov_dict argument of the last model(...) / translate(...) call
    eval_vocab,     \* local eval_vocab of eval, <<>> if unbound
    decoded,        \* what model.decoder.translate returned in this iteration
    candidate,      \* local candidate of eval after lines 220-231
    epochs_run,     \* history: epoch numbers whose train_epoch completed
    evals_after,    \* history: epoch numbers after which eval() was entered
    accs            \* history: accuracies returned by eval()

vars == <<opt, pc, err, attrs, src_vocab, tgt_vocab, model_mode, epoch, step,
          best_acc, ret, batch_graph, oov_dict, model_oov, eval_vocab, decoded,
          candidate, epochs_run, evals_after, accs>>

-----------------------------------------------------------------------------
(* Bounds *)

MaxEpochs == 10
MaxNodes == 2
MaxCand == 2
MaxAcc == 1
NumTrainBatches == 1
NumTestBatches == 1
ShortRun == 1

-----------------------------------------------------------------------------
(* Optional values: None is <<>>, a value v is <<v>>. *)

None == <<>>
Some(v) == <<v>>
IsNone(o) == Len(o) = 0
Val(o) == o[1]

-----------------------------------------------------------------------------
(* The library's Vocab, as far as the runner uses it. *)

unk_token == "<UNK>"
pad_token == "<P>"

MkVocab(symbols) ==
    [symbol2idx |-> [s \in {symbols[i] : i \in 1..Len(symbols)} |->
                        (CHOOSE i \in 1..Len(symbols) : symbols[i] = s) - 1],
     idx2symbol |-> [i \in 0..(Len(symbols) - 1) |-> symbols[i + 1]],
     vocab_size |-> Len(symbols)]

get_symbol_idx(v, s) ==
    IF s \in DOMAIN v.symbol2idx THEN v.symbol2idx[s]
    ELSE v.symbol2idx[unk_token]

add_symbol(v, s) ==
    IF s \in DOMAIN v.symbol2idx THEN v
    ELSE [symbol2idx |-> (s :> v.vocab_size) @@ v.symbol2idx,
          idx2symbol |-> (v.vocab_size :> s) @@ v.idx2symbol,
          vocab_size |-> v.vocab_size + 1]

deepcopy(v) == v

\* dataset.src_vocab_model / dataset.tgt_vocab_model of the bounded dataset
src_vocab_model == MkVocab(<<pad_token, unk_token, "(", ")", "x">>)
tgt_vocab_model == MkVocab(<<pad_token, unk_token, "(", ")", "x">>)

-----------------------------------------------------------------------------
(* Inputs *)

GraphTypes == {"DependencyGraph", "ConstituencyGraph", "DynamicGraph_node_emb",
               "DynamicGraph_node_emb_refined"}
InitGraphTypes == {"line", "dependency", "constituency"}

\* n.get('type'): None (also: key absent), 0 or another value
NodeTypes == {None, Some(0), Some(1)}
\* "x" is in the source vocabulary, "y" is not
NodeTokens == {"x", "y"}
Nodes == [token : NodeTokens, type : NodeTypes]
Graphs == UNION {[1..n -> Nodes] : n \in 1..MaxNodes}

\* what the decoder can emit: indices of "(", ")" and "x"
CandIdx == {2, 3, 4}
Candidates == UNION {[1..n -> CandIdx] : n \in 0..MaxCand}

Accs == 0..MaxAcc

\* Every graph construction setting is constructed and trained for up to
\* ShortRun epochs; the long runs use "DependencyGraph" with no
\* dynamic_init_graph_type (train and eval never read these options).
AllOpts == [graph_construction_type : GraphTypes \cup {"Other"},
            dynamic_init_graph_type : {None} \cup {Some(t) : t \in InitGraphTypes \cup {"other"}},
            use_copy : {0, 1},
            max_epochs : 0..MaxEpochs]
Opts == {o \in AllOpts : \/ /\ o.graph_construction_type = "DependencyGraph"
                            /\ o.dynamic_init_graph_type = None
                         \/ o.max_epochs <= ShortRun}

use_copy == opt.use_copy = 1

-----------------------------------------------------------------------------
Init ==
    /\ opt \in Opts
    /\ pc = "__init__"
    /\ err = "none"
    /\ attrs = {"opt", "device", "use_copy", "use_share_vocab", "data_dir"}
    /\ src_vocab = None
    /\ tgt_vocab = None
    /\ model_mode = "none"
    /\ epoch = 0
    /\ step = 0
    /\ best_acc = -1
    /\ ret = None
    /\ batch_graph = None
    /\ oov_dict = None
    /\ model_oov = None
    /\ eval_vocab = None
    /\ decoded = <<>>
    /\ candidate = <<>>
    /\ epochs_run = <<>>
    /\ evals_after = <<>>
    /\ accs = <<>>

locals == <<batch_graph, oov_dict, model_oov, eval_vocab, decoded, candidate>>
loop == <<epoch, step, best_acc, ret, epochs_run, evals_after, accs>>

\* Mutant: the final else of _build_dataloader falls through instead of raising.
dataloader_error_fallthrough(o) ==
    IF o.graph_construction_type = "DynamicGraph_node_emb_refined"
    THEN IF \/ IsNone(o.dynamic_init_graph_type)
            \/ Val(o.dynamic_init_graph_type) \in {"line", "dependency", "constituency"}
         THEN "none"
         ELSE "RuntimeError"
    ELSE "none"

\* Mutant: the inner else raises NotImplementedError like the outer one.
dataloader_error_same_kind(o) ==
    IF o.graph_construction_type \in
         {"DependencyGraph", "ConstituencyGraph", "DynamicGraph_node_emb"}
    THEN "none"
    ELSE IF o.graph_construction_type = "DynamicGraph_node_emb_refined"
    THEN IF \/ IsNone(o.dynamic_init_graph_type)
            \/ Val(o.dynamic_init_graph_type) \in {"line", "dependency", "constituency"}
         THEN "none"
         ELSE "NotImplementedError"
    ELSE "NotImplementedError"

\* the exception raised by the guards of _build_dataloader, "none" if it passes
dataloader_error(o) ==
    IF o.graph_construction_type \in
         {"DependencyGraph", "ConstituencyGraph", "DynamicGraph_node_emb"}
    THEN "none"
    ELSE IF o.graph_construction_type = "DynamicGraph_node_emb_refined"
    THEN IF \/ IsNone(o.dynamic_init_graph_type)
            \/ Val(o.dynamic_init_graph_type) \in {"line", "dependency", "constituency"}
         THEN "none"
         ELSE "RuntimeError"
    ELSE "NotImplementedError"

_build_dataloader ==
    /\ pc = "__init__"
    /\ IF dataloader_error(opt) # "none"
       THEN /\ pc' = "raised"
            /\ err' = dataloader_error(opt)
            /\ UNCHANGED <<attrs, src_vocab, tgt_vocab>>
       ELSE /\ pc' = "_build_model"
            /\ attrs' = attrs \cup {"train_data_loader", "test_data_loader",
                                    "src_vocab", "tgt_vocab"}
            /\ src_vocab' = Some(src_vocab_model)
            /\ tgt_vocab' = Some(tgt_vocab_model)
            /\ err' = err
    /\ UNCHANGED <<opt, model_mode, loop, locals>>

\* Mutant: __init__ calls _build_optimizer before _build_model.
_build_model_after_optimizer ==
    /\ pc = "_build_model"
    /\ pc' = "_build_optimizer"
    /\ attrs' = attrs \cup {"optimizer"}
    /\ UNCHANGED <<opt, err, src_vocab, tgt_vocab, model_mode, loop, locals>>

_build_model ==
    /\ pc = "_build_model"
    /\ pc' = "_build_optimizer"
    /\ attrs' = attrs \cup {"embedding_style", "criterion", "model"}
    /\ UNCHANGED <<opt, err, src_vocab, tgt_vocab, model_mode, loop, locals>>

_build_optimizer ==
    /\ pc = "_build_optimizer"
    /\ pc' = "constructed"
    /\ attrs' = attrs \cup {"optimizer"}
    /\ UNCHANGED <<opt, err, src_vocab, tgt_vocab, model_mode, loop, locals>>

-----------------------------------------------------------------------------
(* prepare_ext_vocab *)

\* Mutant: the node type is not looked at.
RECURSIVE ext_loop_any_type(_, _, _, _)
ext_loop_any_type(node_attributes, i, oov, token_matrix) ==
    IF i > Len(node_attributes)
    THEN [oov_dict |-> oov, token_matrix |-> token_matrix]
    ELSE LET n == node_attributes[i]
             node_token == n.token
             oov1 == IF get_symbol_idx(oov, node_token) = get_symbol_idx(oov, unk_token)
                     THEN add_symbol(oov, node_token)
                     ELSE oov
         IN ext_loop_any_type(node_attributes, i + 1, oov1,
                              Append(token_matrix, get_symbol_idx(oov1, node_token)))

\* Mutant: the id is looked up before the token is added.
RECURSIVE ext_loop_stale_idx(_, _, _, _)
ext_loop_stale_idx(node_attributes, i, oov, token_matrix) ==
    IF i > Len(node_attributes)
    THEN [oov_dict |-> oov, token_matrix |-> token_matrix]
    ELSE LET n == node_attributes[i]
             node_token == n.token
             oov1 == IF /\ (IsNone(n.type) \/ n.type = Some(0))
                        /\ get_symbol_idx(oov, node_token) = get_symbol_idx(oov, unk_token)
                     THEN add_symbol(oov, node_token)
                     ELSE oov
         IN ext_loop_stale_idx(node_attributes, i + 1, oov1,
                               Append(token_matrix, get_symbol_idx(oov, node_token)))

RECURSIVE ext_loop(_, _, _, _)
ext_loop(node_attributes, i, oov, token_matrix) ==
    IF i > Len(node_attributes)
    THEN [oov_dict |-> oov, token_matrix |-> token_matrix]
    ELSE LET n == node_attributes[i]
             node_token == n.token
             oov1 == IF /\ (IsNone(n.type) \/ n.type = Some(0))
                        /\ get_symbol_idx(oov, node_token) = get_symbol_idx(oov, unk_token)
                     THEN add_symbol(oov, node_token)
                     ELSE oov
         IN ext_loop(node_attributes, i + 1, oov1,
                     Append(token_matrix, get_symbol_idx(oov1, node_token)))

\* Mutant: oov_dict = src_vocab, without the deep copy: the additions land in
\* the caller's vocabulary.
prepare_ext_vocab_alias(graph, vocab) ==
    LET r == ext_loop(graph.node_attributes, 1, vocab, <<>>)
    IN [oov_dict |-> r.oov_dict,
        batch_graph |-> [graph EXCEPT !.token_id_oov = Some(r.token_matrix)],
        src_vocab |-> r.oov_dict]

\* The result names the three objects the call leaves behind: the returned
\* dictionary, the graph with its new feature, and the caller's vocabulary.
prepare_ext_vocab(graph, vocab) ==
    LET r == ext_loop(graph.node_attributes, 1, deepcopy(vocab), <<>>)
    IN [oov_dict |-> r.oov_dict,
        batch_graph |-> [graph EXCEPT !.token_id_oov = Some(r.token_matrix)],
        src_vocab |-> vocab]

NewGraph(nodes) == [node_attributes |-> nodes, token_id_oov |-> None]

-----------------------------------------------------------------------------
(* train / train_epoch *)

train_begin ==
    /\ pc = "constructed"
    /\ pc' = "for_epoch"
    /\ best_acc' = -1
    /\ UNCHANGED <<opt, err, attrs, src_vocab, tgt_vocab, model_mode, epoch, step,
                   ret, epochs_run, evals_after, accs, locals>>

epoch_begin ==
    /\ pc = "for_epoch"
    /\ epoch < opt.max_epochs
    /\ epoch' = epoch + 1
    /\ model_mode' = "train"
    /\ step' = 0
    /\ pc' = "train_epoch"
    /\ UNCHANGED <<opt, err, attrs, src_vocab, tgt_vocab, best_acc, ret,
                   epochs_run, evals_after, accs, locals>>

train_step ==
    /\ pc = "train_epoch"
    /\ step < NumTrainBatches
    /\ \E nodes \in Graphs :
         LET g == NewGraph(nodes)
             r == prepare_ext_vocab(g, Val(src_vocab))
         IN IF use_copy
            THEN /\ oov_dict' = Some(r.oov_dict)
                 /\ batch_graph' = Some(r.batch_graph)
                 /\ src_vocab' = Some(r.src_vocab)
                 /\ model_oov' = Some(r.oov_dict)
            ELSE /\ oov_dict' = None
                 /\ batch_graph' = Some(g)
                 /\ src_vocab' = src_vocab
                 /\ model_oov' = None
    /\ step' = step + 1
    /\ pc' = "train_batch_done"
    /\ UNCHANGED <<opt, err, attrs, tgt_vocab, model_mode, epoch, best_acc, ret,
                   epochs_run, evals_after, accs, eval_vocab, decoded, candidate>>

\* the for statement of line 151 takes up the loader again: the bindings of
\* the finished iteration are dead
train_next ==
    /\ pc = "train_batch_done"
    /\ pc' = "train_epoch"
    /\ batch_graph' = None
    /\ oov_dict' = None
    /\ model_oov' = None
    /\ UNCHANGED <<opt, err, attrs, src_vocab, tgt_vocab, model_mode, loop,
                   eval_vocab, decoded, candidate>>

eval_due(e) == e > 2 /\ e % 5 = 0

train_epoch_return ==
    /\ pc = "train_epoch"
    /\ step = NumTrainBatches
    /\ epochs_run' = Append(epochs_run, epoch)
    /\ step' = 0
    /\ IF eval_due(epoch)
       THEN /\ pc' = "eval"
            /\ model_mode' = "eval"
            /\ evals_after' = Append(evals_after, epoch)
       ELSE /\ pc' = "for_epoch"
            /\ UNCHANGED <<model_mode, evals_after>>
    /\ UNCHANGED <<opt, err, attrs, src_vocab, tgt_vocab, epoch, best_acc, ret,
                   accs, locals>>

train_return ==
    /\ pc = "for_epoch"
    /\ epoch >= opt.max_epochs
    /\ ret' = Some(best_acc)
    /\ pc' = "done"
    /\ UNCHANGED <<opt, err, attrs, src_vocab, tgt_vocab, model_mode, epoch, step,
                   best_acc, epochs_run, evals_after, accs, locals>>

-----------------------------------------------------------------------------
(* eval *)

num_paren(cand, v, sym) ==
    Cardinality({i \in 1..Len(cand) : v.idx2symbol[cand[i]] = sym})

\* lines 220-231: the exception raised ("none" if none) and candidate afterwards
fix_parens(cand, v) ==
    LET diff == num_paren(cand, v, "(") - num_paren(cand, v, ")")
    IN IF diff > 0
       THEN [err |-> "AttributeError", candidate |-> cand]
       ELSE IF diff < 0
       THEN [err |-> "none", candidate |-> SubSeq(cand, 1, Len(cand) + diff)]
       ELSE [err |-> "none", candidate |-> cand]

eval_step ==
    /\ pc = "eval"
    /\ step < NumTestBatches
    /\ \E nodes \in Graphs, c \in Candidates :
         LET r == prepare_ext_vocab(NewGraph(nodes), Val(src_vocab))
             ev == IF use_copy THEN r.oov_dict ELSE Val(tgt_vocab)
             f == fix_parens(c, ev)
         IN /\ oov_dict' = Some(r.oov_dict)
            /\ batch_graph' = Some(r.batch_graph)
            /\ src_vocab' = Some(r.src_vocab)
            /\ eval_vocab' = Some(ev)
            /\ model_oov' = Some(r.oov_dict)
            /\ decoded' = c
            /\ candidate' = f.candidate
            /\ err' = f.err
            /\ pc' = IF f.err = "none" THEN "eval_batch_done" ELSE "raised"
    /\ step' = step + 1
    /\ UNCHANGED <<opt, attrs, tgt_vocab, model_mode, epoch, best_acc, ret,
                   epochs_run, evals_after, accs>>

\* the for statement of line 192 takes up the loader again; candidate_list and
\* reference_list keep their items, which nothing but compute_tree_accuracy reads
eval_next ==
    /\ pc = "eval_batch_done"
    /\ pc' = "eval"
    /\ batch_graph' = None
    /\ oov_dict' = None
    /\ model_oov' = None
    /\ eval_vocab' = None
    /\ decoded' = <<>>
    /\ candidate' = <<>>
    /\ UNCHANGED <<opt, err, attrs, src_vocab, tgt_vocab, model_mode, loop>>

\* Mutant: best_acc takes every test_acc, without the comparison of line 182.
eval_return_last ==
    /\ pc = "eval"
    /\ step = NumTestBatches
    /\ \E test_acc \in Accs :
         /\ accs' = Append(accs, test_acc)
         /\ best_acc' = test_acc
    /\ pc' = "for_epoch"
    /\ step' = 0
    /\ UNCHANGED <<opt, err, attrs, src_vocab, tgt_vocab, model_mode, epoch, ret,
                   epochs_run, evals_after, locals>>

eval_return ==
    /\ pc = "eval"
    /\ step = NumTestBatches
    /\ \E test_acc \in Accs :
         /\ accs' = Append(accs, test_acc)
         /\ best_acc' = IF test_acc > best_acc THEN test_acc ELSE best_acc
    /\ pc' = "for_epoch"
    /\ step' = 0
    /\ UNCHANGED <<opt, err, attrs, src_vocab, tgt_vocab, model_mode, epoch, ret,
                   epochs_run, evals_after, locals>>

-----------------------------------------------------------------------------
Next ==
    \/ _build_dataloader
    \/ _build_model
    \/ _build_optimizer
    \/ train_begin
    \/ epoch_begin
    \/ train_step
    \/ train_next
    \/ train_epoch_return
    \/ train_return
    \/ eval_step
    \/ eval_next
    \/ eval_return

Spec == Init /\ [][Next]_vars

-----------------------------------------------------------------------------
(* Claims *)

BuiltAttrs == {"train_data_loader", "test_data_loader", "src_vocab", "tgt_vocab",
               "share_vocab", "embedding_style", "criterion", "model", "optimizer"}
LoaderAttrs == {"train_data_loader", "test_data_loader", "src_vocab", "tgt_vocab"}
InConstruction == "train_data_loader" \notin attrs

\* C1: with a graph_construction_type outside the four known names the
\* constructor raises NotImplementedError in _build_dataloader, and no data
\* loader, vocabulary, model or optimizer attribute is ever set; _build_model
\* and _build_optimizer are never reached.
ThmC1 ==
    opt.graph_construction_type \notin GraphTypes =>
        /\ pc \in {"__init__", "raised"}
        /\ pc = "raised" => err = "NotImplementedError"
        /\ attrs \cap BuiltAttrs = {}
        /\ IsNone(src_vocab) /\ IsNone(tgt_vocab)

WitC1 ==
    /\ opt.graph_construction_type \notin GraphTypes
    /\ pc = "raised"
    /\ err = "NotImplementedError"

\* C2 as stated: every configuration value the script rejects is rejected with
\* NotImplementedError.
CexC2 ==
    (pc = "raised" /\ InConstruction) => err = "NotImplementedError"

\* C2 amended: the script has two guards: an unrecognized
\* graph_construction_type raises NotImplementedError, and under
\* "DynamicGraph_node_emb_refined" a dynamic_init_graph_type other than None,
\* "line", "dependency", "constituency" raises RuntimeError; nothing else is
\* rejected during construction.
RejectedInitType ==
    /\ opt.graph_construction_type = "DynamicGraph_node_emb_refined"
    /\ ~IsNone(opt.dynamic_init_graph_type)
    /\ Val(opt.dynamic_init_graph_type) \notin InitGraphTypes

ThmC2 ==
    /\ (pc = "raised" /\ InConstruction) =>
          \/ opt.graph_construction_type \notin GraphTypes /\ err = "NotImplementedError"
          \/ RejectedInitType /\ err = "RuntimeError"
    /\ (opt.graph_construction_type \notin GraphTypes \/ RejectedInitType) =>
          pc \in {"__init__", "raised"}

WitC2 ==
    /\ pc = "raised"
    /\ RejectedInitType
    /\ err = "RuntimeError"

\* C3: loaders and vocabularies are built before the model, the model before
\* the optimizer, all three before the first training epoch starts, and no
\* evaluation pass starts before a training epoch has completed.
ThmC3 ==
    /\ "model" \in attrs => LoaderAttrs \subseteq attrs
    /\ "optimizer" \in attrs => "model" \in attrs
    /\ (epoch >= 1 \/ model_mode # "none" \/ pc \in {"constructed", "for_epoch", "done"})
          => (LoaderAttrs \cup {"model", "optimizer"}) \subseteq attrs
    /\ (evals_after # <<>> \/ pc \in {"eval", "eval_batch_done"} \/ model_mode = "eval")
          => /\ Len(epochs_run) >= 1
             /\ Len(epochs_run) >= evals_after[1]

WitC3 ==
    /\ pc = "eval_batch_done"
    /\ Len(evals_after) = 1
    /\ "optimizer" \in attrs

\* C4: self.src_vocab holds exactly what the data loader step put there, after
\* any number of training steps and evaluation passes; a token that an earlier
\* batch added to its OOV dictionary is unknown to src_vocab afterwards.
ThmC4 ==
    "src_vocab" \in attrs =>
        /\ src_vocab = Some(src_vocab_model)
        /\ \A t \in NodeTokens :
              t \notin DOMAIN src_vocab_model.symbol2idx =>
                  get_symbol_idx(Val(src_vocab), t) = get_symbol_idx(Val(src_vocab), unk_token)

WitC4 ==
    /\ pc = "train_batch_done"
    /\ epoch >= 6
    /\ ~IsNone(oov_dict)
    /\ "y" \in DOMAIN Val(oov_dict).symbol2idx

TypeNoneOrZero(n) == IsNone(n.type) \/ n.type = Some(0)

\* C5: the dictionary prepare_ext_vocab returns holds every symbol of src_vocab
\* under the same index, and each further symbol is the token of a node of the
\* batch graph whose type is None or 0.
ThmC5 ==
    ~IsNone(oov_dict) =>
        LET o == Val(oov_dict)
            s == Val(src_vocab)
            nodes == Val(batch_graph).node_attributes
        IN /\ \A sym \in DOMAIN s.symbol2idx :
                 sym \in DOMAIN o.symbol2idx /\ o.symbol2idx[sym] = s.symbol2idx[sym]
           /\ \A sym \in DOMAIN o.symbol2idx \ DOMAIN s.symbol2idx :
                 \E i \in 1..Len(nodes) : nodes[i].token = sym /\ TypeNoneOrZero(nodes[i])

WitC5 ==
    /\ ~IsNone(oov_dict)
    /\ DOMAIN Val(oov_dict).symbol2idx # DOMAIN Val(src_vocab).symbol2idx
    /\ \E i \in 1..Len(Val(batch_graph).node_attributes) :
          ~TypeNoneOrZero(Val(batch_graph).node_attributes[i])

\* C6 as stated: with copy disabled no OOV dictionary is built or handed to the
\* model or the decoder, in train_epoch and in eval, and the batch graph gets
\* no token_id_oov feature.
CexC6 ==
    ~use_copy =>
        /\ IsNone(oov_dict)
        /\ IsNone(model_oov)
        /\ ~IsNone(batch_graph) => IsNone(Val(batch_graph).token_id_oov)

\* C7: token_id_oov holds one id per node in node order: the src_vocab index of
\* a known token; for an unknown token that this node or an earlier node of
\* type None or 0 carries, a non-unknown index of the returned dictionary that
\* every later node with the token shares; the unknown index otherwise.
ThmC7 ==
    (~IsNone(batch_graph) /\ ~IsNone(Val(batch_graph).token_id_oov)) =>
        LET nodes == Val(batch_graph).node_attributes
            ids == Val(Val(batch_graph).token_id_oov)
            s == Val(src_vocab)
            o == Val(oov_dict)
            unk == s.symbol2idx[unk_token]
            Known(i) == nodes[i].token \in DOMAIN s.symbol2idx
            Added(i) == \E j \in 1..i :
                           nodes[j].token = nodes[i].token /\ TypeNoneOrZero(nodes[j])
        IN /\ Len(ids) = Len(nodes)
           /\ \A i \in 1..Len(nodes) :
                 /\ Known(i) => ids[i] = s.symbol2idx[nodes[i].token]
                 /\ (~Known(i) /\ Added(i)) =>
                       /\ ids[i] # unk
                       /\ nodes[i].token \in DOMAIN o.symbol2idx
                       /\ ids[i] = o.symbol2idx[nodes[i].token]
                       /\ \A k \in i..Len(nodes) :
                             nodes[k].token = nodes[i].token => ids[k] = ids[i]
                 /\ (~Known(i) /\ ~Added(i)) => ids[i] = unk

WitC7 ==
    /\ ~IsNone(batch_graph)
    /\ ~IsNone(Val(batch_graph).token_id_oov)
    /\ LET nodes == Val(batch_graph).node_attributes
           ids == Val(Val(batch_graph).token_id_oov)
       IN /\ Len(nodes) = 2
          /\ nodes[1].token = "y" /\ nodes[1].type = Some(0)
          /\ nodes[2].token = "y" /\ nodes[2].type = Some(1)
          /\ ids[1] = ids[2]
          /\ ids[1] # 1

\* C8 as stated: after the parenthesis fix-up the candidate holds as many "("
\* as ")" tokens, read through eval_vocab.
CexC8 ==
    pc = "eval_batch_done" =>
        num_paren(candidate, Val(eval_vocab), "(") = num_paren(candidate, Val(eval_vocab), ")")

RECURSIVE MaxOf(_)
MaxOf(q) ==
    IF Len(q) = 1 THEN q[1]
    ELSE LET m == MaxOf(Tail(q)) IN IF q[1] > m THEN q[1] ELSE m

Highest == IF accs = <<>> THEN -1 ELSE MaxOf(accs)

\* C9: best_acc is -1 until an evaluation has run and the highest accuracy seen
\* so far afterwards, it never decreases, and train() returns it: the maximum
\* over the evaluation passes, -1 when max_epochs < 5.
ThmC9 ==
    /\ [](/\ best_acc = Highest
          /\ ~IsNone(ret) => /\ Val(ret) = Highest
                             /\ Len(accs) = Len(evals_after)
                             /\ (opt.max_epochs < 5 <=> Val(ret) = -1))
    /\ [][best_acc' >= best_acc]_vars

WitC9 ==
    /\ ~IsNone(ret)
    /\ Len(accs) = 2
    /\ accs[2] < accs[1]
    /\ Val(ret) = accs[1]

Upto(n) == [i \in 1..n |-> i]
Fives(n) == [i \in 1..(n \div 5) |-> 5 * i]

\* C10 as stated: a run of train() trains exactly the epochs 1..max_epochs in
\* order and evaluates exactly after the multiples of 5; the model is in
\* training mode throughout every epoch.
CexC10 ==
    /\ pc \in {"train_epoch", "train_batch_done"} => model_mode = "train"
    /\ (pc = "done" \/ (pc = "raised" /\ ~InConstruction)) =>
          /\ epochs_run = Upto(opt.max_epochs)
          /\ evals_after = Fives(opt.max_epochs)
====
